---------------------------- MODULE Spec2Model ----------------------------
(***************************************************************************)
(* Model of src/src/lexer.rs: the dispatcher lex, the token data model and *)
(* the Display rendering of ParseError.                                    *)
(*                                                                         *)
(* A source string is a sequence of characters; a character occupies one   *)
(* or two bytes in UTF-8.  u32 values are kept at their full width as a    *)
(* pair <<hi, lo>> of 16-bit limbs.  Option<T> is a sequence of length at  *)
(* most one: <<>> is None, <<x>> is Some(x).                               *)
(***************************************************************************)
EXTENDS Integers, Sequences, FiniteSets

(* ----------------------------- bounds ---------------------------------- *)

\* longest enumerated source, in characters
MaxLen ==
    2

\* most matches one call accepts before the model stops following it
MaxAccepted ==
    3

(* ------------------------- u32 arithmetic ------------------------------ *)

\* radix of one limb: a u32 is two limbs
Limb ==
    65536

U32(n) ==
    <<n \div Limb, n % Limb>>

U32Max ==
    <<Limb - 1, Limb - 1>>

\* a + b overflows u32
U32Overflows(a, b) ==
    a[1] + b[1] + ((a[2] + b[2]) \div Limb) >= Limb

\* a + b modulo 2^32
U32WrappingAdd(a, b) ==
    <<(a[1] + b[1] + ((a[2] + b[2]) \div Limb)) % Limb, (a[2] + b[2]) % Limb>>

U32Less(a, b) ==
    a[1] < b[1] \/ (a[1] = b[1] /\ a[2] < b[2])

U32DivTen(a) ==
    <<a[1] \div 10, ((a[1] % 10) * Limb + a[2]) \div 10>>

U32ModTen(a) ==
    ((a[1] % 10) * Limb + a[2]) % 10

Digits ==
    <<"0", "1", "2", "3", "4", "5", "6", "7", "8", "9">>

\* {} of an unsigned integer: its decimal digits, most significant first
RECURSIVE U32Display(_)
U32Display(a) ==
    IF a[1] = 0 /\ a[2] < 10
        THEN <<Digits[a[2] + 1]>>
        ELSE U32Display(U32DivTen(a)) \o <<Digits[U32ModTen(a) + 1]>>

\* {:?} of an i64
RECURSIVE I64Debug(_)
I64Debug(n) ==
    IF n < 0 THEN <<"-">> \o I64Debug(0 - n)
    ELSE IF n < 10 THEN <<Digits[n + 1]>>
    ELSE I64Debug(n \div 10) \o <<Digits[(n % 10) + 1]>>

(* --------------------------- data model -------------------------------- *)

LocationOneBased ==
    [line |-> <<0, 1>>, column |-> <<0, 1>>]

\* Location::default()
LocationDefault ==
    [line |-> U32(0), column |-> U32(0)]

Keyword ==
    {"Select", "From", "As", "Table", "Create", "Insert", "Into", "Values", "Int", "Text"}

Symbol ==
    {"Semicolon", "Asterisk", "Comma", "LeftParen", "RightParen"}

\* {:?} of a TokenValue, as derived
TokenValueDebug(v) ==
    IF v.tag \in {"Keyword", "Symbol"}
        THEN <<v.tag, "(", v.payload, ")">>
    ELSE IF v.tag \in {"Identifier", "String"}
        THEN <<v.tag, "(", "\"", v.payload, "\"", ")">>
    ELSE <<v.tag, "(">> \o I64Debug(v.payload) \o <<")">>

Token(value, location) ==
    [value |-> value, location |-> location]

ParseError(location, last) ==
    [location |-> location, last |-> last]

DisplayHintOfAny(last) ==
    <<" after ">> \o (IF last = <<>> THEN <<"None">> ELSE TokenValueDebug(last[1].value))

\* the hint: " after {:?}" of the last token's value, or the empty string
DisplayHint(last) ==
    IF last = <<>>
        THEN <<>>
        ELSE <<" after ">> \o TokenValueDebug(last[1].value)

\* <ParseError as Display>::fmt: the pieces written, in order
Display(e) ==
    <<"Unable to lex token">> \o DisplayHint(e.last)
        \o <<", at ">> \o U32Display(e.location.line)
        \o <<":">> \o U32Display(e.location.column)

(* ----------------------------- strings --------------------------------- *)

\* the characters of the enumerated sources: a letter, a space and a two-byte letter
Alphabet ==
    {"d", " ", "U+00E9"}

SymbolChars ==
    {";", "*", ",", "(", ")"}

\* char::len_utf8: U+00E9 takes two bytes, every other character here is ASCII
LenUtf8(c) ==
    IF c = "U+00E9" THEN 2 ELSE 1

RECURSIVE ByteLen(_)
ByteLen(s) ==
    IF s = <<>> THEN 0 ELSE LenUtf8(Head(s)) + ByteLen(Tail(s))

\* source.char_indices().map(|(index, _)| index): byte offset of each character
CharIndices(s) ==
    [i \in 1..Len(s) |-> ByteLen(SubSeq(s, 1, i - 1))]

NumChars(s) ==
    Len(CharIndices(s))

IsCharBoundary(s, index) ==
    index = ByteLen(s) \/ \E i \in 1..Len(s) : CharIndices(s)[i] = index

\* &source[index..]: the characters from byte offset index on (a char boundary)
SliceFrom(s, index) ==
    IF index = ByteLen(s)
        THEN <<>>
        ELSE LET i == CHOOSE k \in 1..Len(s) : CharIndices(s)[k] = index
             IN SubSeq(s, i, Len(s))

RECURSIVE SeqsUpTo(_, _)
SeqsUpTo(S, n) ==
    IF n = 0 THEN {<<>>}
    ELSE LET shorter == SeqsUpTo(S, n - 1)
         IN shorter \cup {Append(s, c) : s \in {t \in shorter : Len(t) = n - 1}, c \in S}

Deadbeef ==
    <<"d", "e", "a", "d", "b", "e", "e", "f">>

\* the sources lex is called on with an arbitrary matcher list
Sources ==
    SeqsUpTo(Alphabet, MaxLen)

\* the sources lex is called on with the reference matcher list
ReferenceSources ==
    Sources \cup {<<c>> : c \in SymbolChars} \cup {Deadbeef}

(* ----------------------------- matchers -------------------------------- *)

\* const LEXERS: [Lexer; 0] = []
ReferenceLexers ==
    <<>>

\* a non-empty list of matchers, each an arbitrary fn(&str) -> Option<LexerResult>
ArbitraryLexers ==
    <<"first", "second">>

\* (token_value, chars) of the results the model's matchers return: a one-character
\* symbol, a two-character identifier, and a match that consumes nothing
Lexemes ==
    { <<[tag |-> "Symbol", payload |-> "Semicolon"], 1>>,
      <<[tag |-> "Identifier", payload |-> "d"], 2>>,
      <<[tag |-> "Identifier", payload |-> "d"], 0>> }

\* (lines, columns) of the results the model's matchers return
Advances ==
    { <<U32(0), U32(0)>>, <<U32(0), U32(1)>>, <<U32(1), U32(0)>>,
      <<U32(0), U32Max>>, <<U32Max, U32(0)>> }

\* struct LexerResult { token_value, chars, lines, columns }
LexerResult ==
    { [token_value |-> x[1], chars |-> x[2], lines |-> a[1], columns |-> a[2]] :
        x \in Lexemes, a \in Advances }

(* ------------------------------- state --------------------------------- *)

VARIABLES
    source,      \* the argument of lex
    LEXERS,      \* the matcher list
    tokens,      \* Vec<Token>
    location,    \* Location
    char_index,  \* usize
    result,      \* the latest accepted LexerResult, as an Option
    accepted,    \* number of accepted matches so far
    pc,          \* "scan", "ok", "err", "panic", "shown"
    ret,         \* <<>> while running, <<"Ok", tokens>> or <<"Err", error>>
    message      \* what Display wrote for the returned error

vars ==
    <<source, LEXERS, tokens, location, char_index, result, accepted, pc, ret, message>>

Init ==
    /\ \/ LEXERS = ReferenceLexers /\ source \in ReferenceSources
       \/ LEXERS = ArbitraryLexers /\ source \in Sources
    /\ tokens = <<>>
    /\ location = LocationDefault
    /\ char_index = 0
    /\ result = <<>>
    /\ accepted = 0
    /\ pc = "scan"
    /\ ret = <<>>
    /\ message = <<>>

(* ------------------------------ lex ------------------------------------ *)

LoopCondInclusive(index, num_chars) ==
    index <= num_chars

\* while char_index < num_chars
LoopCond(index, num_chars) ==
    index < num_chars

PopFront(ts) ==
    IF ts = <<>> THEN <<>> ELSE <<ts[1]>>

\* tokens.pop()
Pop(ts) ==
    IF ts = <<>> THEN <<>> ELSE <<ts[Len(ts)]>>

\* tokens once its last element is popped
AfterPop(ts) ==
    IF ts = <<>> THEN <<>> ELSE SubSeq(ts, 1, Len(ts) - 1)

PushNothing(ts, token_value, loc) ==
    ts

\* tokens.push(Token { value: token_value, location })
Push(ts, token_value, loc) ==
    Append(ts, Token(token_value, loc))

\* char_index += chars
NextCharIndex(index, chars) ==
    index + chars

NextLineAbsolute(loc, lines) ==
    lines

\* location.line += lines
NextLine(loc, lines) ==
    U32WrappingAdd(loc.line, lines)

NextColumnAlwaysAdded(loc, lines, columns) ==
    U32WrappingAdd(loc.column, columns)

\* if lines > 0 { location.column = columns } else { location.column += columns }
NextColumn(loc, lines, columns) ==
    IF U32Less(U32(0), lines)
        THEN columns
        ELSE U32WrappingAdd(loc.column, columns)

\* the additions of one accepted match overflow u32
MatchOverflows(loc, r) ==
    \/ U32Overflows(loc.line, r.lines)
    \/ (~U32Less(U32(0), r.lines) /\ U32Overflows(loc.column, r.columns))

\* the loop is left: Ok(tokens)
ReturnOk ==
    /\ pc = "scan"
    /\ ~LoopCond(char_index, NumChars(source))
    /\ pc' = "ok"
    /\ ret' = <<"Ok", tokens>>
    /\ UNCHANGED <<source, LEXERS, tokens, location, char_index, result, accepted, message>>

\* &source[char_index..] with char_index inside a character: the slice panics
SlicePanic ==
    /\ pc = "scan"
    /\ LoopCond(char_index, NumChars(source))
    /\ ~IsCharBoundary(source, char_index)
    /\ pc' = "panic"
    /\ UNCHANGED <<source, LEXERS, tokens, location, char_index, result, accepted, ret, message>>

\* every matcher declines (or there is none): Err(ParseError { location, last: tokens.pop() })
NoMatch ==
    /\ pc = "scan"
    /\ LoopCond(char_index, NumChars(source))
    /\ IsCharBoundary(source, char_index)
    /\ pc' = "err"
    /\ ret' = <<"Err", ParseError(location, Pop(tokens))>>
    /\ tokens' = AfterPop(tokens)
    /\ UNCHANGED <<source, LEXERS, location, char_index, result, accepted, message>>

\* find_map yields the result r of the first matcher that accepts: the loop body
\* with its additions wrapping (overflow checks off) or in range
Match(r) ==
    /\ pc = "scan"
    /\ LoopCond(char_index, NumChars(source))
    /\ IsCharBoundary(source, char_index)
    /\ \E i \in DOMAIN LEXERS : TRUE
    /\ accepted < MaxAccepted
    /\ result' = <<r>>
    /\ tokens' = Push(tokens, r.token_value, location)
    /\ char_index' = NextCharIndex(char_index, r.chars)
    /\ location' = [line |-> NextLine(location, r.lines),
                    column |-> NextColumn(location, r.lines, r.columns)]
    /\ accepted' = accepted + 1
    /\ UNCHANGED <<source, LEXERS, pc, ret, message>>

\* the loop body with overflow checks on: an overflowing addition panics
OverflowPanic(r) ==
    /\ pc = "scan"
    /\ LoopCond(char_index, NumChars(source))
    /\ IsCharBoundary(source, char_index)
    /\ \E i \in DOMAIN LEXERS : TRUE
    /\ accepted < MaxAccepted
    /\ MatchOverflows(location, r)
    /\ pc' = "panic"
    /\ UNCHANGED <<source, LEXERS, tokens, location, char_index, result, accepted, ret, message>>

\* the caller formats the returned error
Fmt ==
    /\ pc = "err"
    /\ message' = Display(ret[2])
    /\ pc' = "shown"
    /\ UNCHANGED <<source, LEXERS, tokens, location, char_index, result, accepted, ret>>

InRange(r) ==
    ~MatchOverflows(location, r)

\* an accepted match none of whose additions overflows
MatchInRange(r) ==
    InRange(r) /\ Match(r)

\* an accepted match in range that consumes at least one character
MatchConsuming(r) ==
    r.chars >= 1 /\ MatchInRange(r)

Next ==
    \/ ReturnOk
    \/ SlicePanic
    \/ NoMatch
    \/ \E r \in LexerResult : Match(r)
    \/ \E r \in LexerResult : OverflowPanic(r)
    \/ Fmt

\* lex with either matcher list, every matcher result, either overflow behaviour
Spec ==
    Init /\ [][Next]_vars

NextInRange ==
    \/ ReturnOk
    \/ SlicePanic
    \/ NoMatch
    \/ \E r \in LexerResult : MatchInRange(r)
    \/ Fmt

\* lex where line and column stay within the u32 range
SpecInRange ==
    Init /\ [][NextInRange]_vars

NextConsuming ==
    \/ ReturnOk
    \/ SlicePanic
    \/ NoMatch
    \/ \E r \in LexerResult : MatchConsuming(r)
    \/ Fmt

\* lex where, besides, every accepting matcher consumes at least one character
SpecConsuming ==
    Init /\ [][NextConsuming]_vars

(* ------------------------- helpers of the claims ----------------------- *)

\* the Symbol kind each symbol character stands for
SymbolOf(c) ==
    CASE c = ";" -> "Semicolon"
      [] c = "*" -> "Asterisk"
      [] c = "," -> "Comma"
      [] c = "(" -> "LeftParen"
      [] c = ")" -> "RightParen"

IsWhitespace(c) ==
    c = " "

LocationLeq(a, b) ==
    U32Less(a.line, b.line) \/ (a.line = b.line /\ ~U32Less(b.column, a.column))

Occurs(m, piece) ==
    \E i \in 1..Len(m) : m[i] = piece

FirstIndex(m, piece) ==
    CHOOSE i \in 1..Len(m) : m[i] = piece /\ \A j \in 1..(i - 1) : m[j] # piece

IsDigits(ds) ==
    Len(ds) >= 1 /\ \A i \in 1..Len(ds) : \E d \in 1..10 : Digits[d] = ds[i]

DigitValue(c) ==
    (CHOOSE d \in 1..10 : Digits[d] = c) - 1

\* the u32 a decimal digit string denotes
RECURSIVE U32Parse(_)
U32Parse(ds) ==
    IF ds = <<>>
        THEN <<0, 0>>
        ELSE LET v == U32Parse(SubSeq(ds, 1, Len(ds) - 1))
                 lo == v[2] * 10 + DigitValue(ds[Len(ds)])
             IN <<v[1] * 10 + (lo \div Limb), lo % Limb>>

\* the position a match with result r leaves, started from position loc
Advanced(loc, r) ==
    IF r.lines # <<0, 0>>
        THEN [line |-> U32WrappingAdd(loc.line, r.lines), column |-> r.columns]
        ELSE [line |-> loc.line, column |-> U32WrappingAdd(loc.column, r.columns)]

(* ------------------------------- claims -------------------------------- *)

\* C1: lex on the empty input never enters the loop (no match is attempted, no
\* error and no panic arise) and returns Ok with an empty token sequence.
C1_EmptyInputOk ==
    source = <<>> =>
        /\ pc \in {"scan", "ok"}
        /\ accepted = 0
        /\ pc = "ok" => ret = <<"Ok", <<>>>>

C1_Witness ==
    source = <<>> /\ pc = "ok" /\ ret[1] = "Ok"

\* C2: with the reference matcher list, lex of a non-empty source never succeeds:
\* it returns an error at line 0, column 0 with no last token.
C2_ReferenceFailsAtStart ==
    (LEXERS = <<>> /\ source # <<>>) =>
        /\ pc \in {"scan", "err", "shown"}
        /\ pc # "scan" =>
              /\ ret[1] = "Err"
              /\ ret[2] = [location |-> [line |-> <<0, 0>>, column |-> <<0, 0>>],
                           last |-> <<>>]

C2_Witness ==
    LEXERS = <<>> /\ source = Deadbeef /\ pc = "err" /\ ret[1] = "Err"

\* C3: when no matcher accepts, lex returns an error (no token sequence) whose
\* position is the current position, the one the accepted matches led to, and whose
\* last token is the most recently accepted one, or None when none was accepted.
C3_ErrorAtCurrentPosition ==
    pc = "err" =>
        /\ ret[1] = "Err"
        /\ ret[2].location = location
        /\ (ret[2].last = <<>>) <=> (accepted = 0)
        /\ accepted > 0 =>
              /\ ret[2].last[1].value = result[1].token_value
              /\ location = Advanced(ret[2].last[1].location, result[1])

C3_Witness ==
    /\ pc = "err"
    /\ accepted >= 2
    /\ ret[2].last # <<>>
    /\ ret[2].location # [line |-> <<0, 0>>, column |-> <<0, 0>>]
    /\ ret[2].last[1].location # ret[2].location

\* C4: while line and column stay within the u32 range, the positions of the tokens
\* a successful lex returns are non-decreasing in (line, column) order.
C4_PositionsNonDecreasing ==
    pc = "ok" =>
        \A i, j \in 1..Len(ret[2]) :
            i < j => LocationLeq(ret[2][i].location, ret[2][j].location)

C4_Witness ==
    /\ pc = "ok"
    /\ Len(ret[2]) = 3
    /\ ret[2][2].location.line # <<0, 0>>
    /\ ret[2][3].location.line = ret[2][2].location.line
    /\ ret[2][3].location # ret[2][2].location

\* C5: each of ; * , ( ) as a one-character source lexes to exactly one Symbol token
\* of the matching kind, at position 0:0.
C5_SymbolLexesToOneToken ==
    \A c \in SymbolChars :
        (LEXERS = ReferenceLexers /\ source = <<c>> /\ pc # "scan") =>
            /\ pc = "ok"
            /\ ret[2] = <<Token([tag |-> "Symbol", payload |-> SymbolOf(c)],
                                [line |-> <<0, 0>>, column |-> <<0, 0>>])>>

\* C6: the rendered message is "Unable to lex token", then " after " and the debug
\* form of the last token's value exactly when the error has a last token, then
\* ", at ", the decimal line, ":" and the decimal column of the error's position.
C6_MessageFormat ==
    pc = "shown" =>
        LET e == ret[2]
            m == message
            at == FirstIndex(m, ", at ")
            colon == FirstIndex(m, ":")
        IN /\ m[1] = "Unable to lex token"
           /\ Occurs(m, ", at ") /\ Occurs(m, ":")
           /\ Occurs(m, " after ") <=> (e.last # <<>>)
           /\ e.last = <<>> => at = 2
           /\ e.last # <<>> =>
                 /\ m[2] = " after "
                 /\ SubSeq(m, 3, at - 1) = TokenValueDebug(e.last[1].value)
           /\ at < colon
           /\ IsDigits(SubSeq(m, at + 1, colon - 1))
           /\ U32Parse(SubSeq(m, at + 1, colon - 1)) = e.location.line
           /\ IsDigits(SubSeq(m, colon + 1, Len(m)))
           /\ U32Parse(SubSeq(m, colon + 1, Len(m))) = e.location.column

C6_Witness ==
    /\ pc = "shown"
    /\ ret[2].last # <<>>
    /\ ret[2].location.line = <<0, 1>>
    /\ ret[2].location.column = U32Max
    /\ Len(message) > 10

C8_AcceptedMatchUpdate ==
    [][ accepted' = accepted + 1 =>
          /\ tokens' = Append(tokens, [value |-> result'[1].token_value,
                                       location |-> location])
          /\ char_index' = char_index + result'[1].chars
          /\ location' = Advanced(location, result'[1]) ]_vars

C8_Witness ==
    /\ pc = "scan"
    /\ accepted >= 2
    /\ result[1].lines = <<0, 1>>
    /\ tokens[Len(tokens)].location.column = <<0, 1>>
    /\ location.column = <<0, 0>>
    /\ location.line = <<0, 1>>

\* C9: whenever the loop takes a slice, the cursor is a char boundary and the slice
\* is the source from the cursor-th character on, the cursor being the number of
\* characters the accepted matches consumed.
C9_SliceStartsAtCursor ==
    (pc = "scan" /\ LoopCond(char_index, NumChars(source))) =>
        /\ IsCharBoundary(source, char_index)
        /\ SliceFrom(source, char_index) = SubSeq(source, char_index + 1, Len(source))

\* C10: when every accepted match consumes at least one character, lex never ends
\* otherwise than by returning, the cursor grows with every accepted match, and the
\* accepted matches are at most as many as the characters of the source.
C10_ReturnsWithinInputLength ==
    /\ pc # "panic"
    /\ accepted <= NumChars(source)
    /\ pc = "scan" => char_index >= accepted

=============================================================================
